---- MODULE Spec2Model ----
(***************************************************************************)
(* A model of the CeloWallet store layer:                                  *)
(*   - StoreProvider (src/src/services/Store/StoreProvider.tsx): the       *)
(*     membership scanner, the balance poller, the pending-transaction     *)
(*     status poller, account delete / restore and the asset totals;       *)
(*   - WalletBreakdown (src/unnamed/part_000): the dashboard balance list; *)
(*   - CeloWalletApiService.getAssets (CeloWalletApi.ts).                  *)
(*                                                                         *)
(* JavaScript runs every callback to completion, so one action is one      *)
(* callback (an event handler, a timer callback, the reactions of one      *)
(* settled promise) together with the React render and effects it causes.  *)
(***************************************************************************)
EXTENDS Integers, Sequences, FiniteSets, TLC

\* ------------------------------------------------------------------ bounds
MaxExpiry == 2        \* membership expiries are 0..MaxExpiry (seconds)
MaxTicks == 4         \* the clock advances MaxTicks half-seconds
MaxScans == 2         \* membership scans in flight at once
MaxRequests == 2      \* transaction lookups in flight at once
MaxTimestamp == 1     \* block timestamps are 1..MaxTimestamp
MaxBalance == 1       \* balances are 0..MaxBalance
MaxBalanceRequests == 2  \* balance requests in flight at once
MaxHolding == 1       \* an account holds 0..MaxHolding units of an asset
MaxRate == 2          \* getAssetRate returns 1..MaxRate
MaxCalls == 3         \* calls of getAssets

VARIABLES
  rawAccounts,          \* AccountContext.accounts: uuid -> account record
  dashboardAccounts,    \* settings.dashboardAccounts: set of uuids
  accountRestore,       \* useState accountRestore: uuid -> {} or {account}
  memberships,          \* useState memberships: [defined, list]
  scans,                \* getUnlockTimestamps promises in flight
  now,                  \* Date.now(), in milliseconds
  providerMounted,      \* the StoreProvider component is mounted
  pendingTransactions,  \* useState pendingTransactions
  txEffect,             \* id of the status effect instance holding a cleanup, 0 if none
  isMounted,            \* ids of the status effect instances whose isMounted is true
  intervals,            \* setInterval timers of the status effect that are not cleared
  txRequests,           \* lookups of the status poller in flight
  balRequests,          \* getAccountsAssetsBalances promises in flight
  tokenScans,           \* accounts handed to state.scanAccountTokens
  last                  \* history: the callback that ran last

VARIABLES
  wb,                   \* WalletBreakdown: the inputs and the result of one render
  api                   \* CeloWalletApiService: the calls of getAssets

storeVars == <<rawAccounts, dashboardAccounts, accountRestore, memberships, scans, now,
               providerMounted, pendingTransactions, txEffect, isMounted, intervals,
               txRequests, balRequests, tokenScans, last>>
vars == <<storeVars, wb, api>>

\* ------------------------------------------------------------ plain values
DEFAULT_NETWORK == "Celo"
VIEW_ONLY == "VIEW_ONLY"
STANDARD == "STANDARD"
PURCHASE_MEMBERSHIP == "PURCHASE_MEMBERSHIP"
DEFIZAP == "DEFIZAP"
NoTxType == "none"
PENDING == "PENDING"
SUCCESS == "SUCCESS"
FAILED == "FAILED"
NoValue == "undefined"

ERROR == "ERROR"
NOTMEMBER == "NOTMEMBER"
MEMBER == "MEMBER"
EXPIRED == "EXPIRED"

\* memberships is MembershipStatus[] | undefined
Undefined == [defined |-> FALSE, list |-> <<>>]
Defined(l) == [defined |-> TRUE, list |-> l]

\* The membership contracts of MEMBERSHIP_CONFIG, in Object.values order.
Contracts == <<"c1">>
MEMBERSHIP_CONTRACTS(contract) == IF contract = "c1" THEN "onemonth" ELSE "twelvemonths"

Uuids == {1, 2, 3}
\* the accounts the user deletes and restores in this model
Owned == {1, 2}
AddressOf(u) == <<"0xA", "0xB", "0xC">>[u]

RECURSIVE SeqOfSet(_)
SeqOfSet(S) ==
  IF S = {} THEN <<>>
  ELSE LET m == CHOOSE x \in S : \A y \in S : x <= y
       IN <<m>> \o SeqOfSet(S \ {m})

Range(s) == {s[i] : i \in 1..Len(s)}

\* ---------------------------------------------------------------- accounts
\* The accounts the wallet holds when the provider mounts.  Account 3 is a
\* watch-only account, which the membership scanner skips.
InitialAccount(u) ==
  [uuid |-> u, address |-> AddressOf(u), networkId |-> DEFAULT_NETWORK,
   wallet |-> IF u = 3 THEN VIEW_ONLY ELSE "LEDGER",
   balance |-> 0, transactions |-> {}]

\* A transaction of an account that is waiting for its confirmation.
PendingTx(hash, u, txType, network) ==
  [hash |-> hash, from |-> AddressOf(u), network |-> network, txType |-> txType,
   stage |-> PENDING, timestamp |-> 0]

\* getDashboardAccounts(accounts, settings.dashboardAccounts), as uuids
currentAccountsOf(raw, dash) == {u \in DOMAIN raw : u \in dash}
currentAccounts == currentAccountsOf(rawAccounts, dashboardAccounts)

\* getPendingTransactionsFromAccounts(currentAccounts)
getPendingTransactionsFromAccounts(raw, dash) ==
  UNION {{t \in raw[u].transactions : t.stage = PENDING} : u \in currentAccountsOf(raw, dash)}

\* getAccountByAddressAndNetworkName(address, networkId), as a set of uuids
getAccountByAddressAndNetworkName(raw, address, networkId) ==
  {u \in DOMAIN raw : raw[u].address = address /\ raw[u].networkId = networkId}

\* ------------------------------------------------------- membership state
\* flatten(Object.values(memberships).map(m => m.memberships.map(e => e.expiry)))
RECURSIVE flattenExpiries(_)
flattenExpiries(list) ==
  IF list = <<>> THEN <<>>
  ELSE [i \in 1..Len(Head(list).memberships) |-> Head(list).memberships[i].expiry]
       \o flattenExpiries(Tail(list))

membershipExpirations ==
  IF memberships.defined THEN flattenExpiries(memberships.list) ELSE <<>>

\* Math.round(Date.now() / 1000)
currentTime == (now + 500) \div 1000

membershipStateGE ==
  IF ~memberships.defined THEN ERROR
  ELSE IF Len(memberships.list) = 0 THEN NOTMEMBER
  ELSE IF \E i \in 1..Len(membershipExpirations) : membershipExpirations[i] >= currentTime
       THEN MEMBER
       ELSE EXPIRED

membershipState ==
  IF ~memberships.defined THEN ERROR
  ELSE IF Len(memberships.list) = 0 THEN NOTMEMBER
  ELSE IF \E i \in 1..Len(membershipExpirations) : membershipExpirations[i] > currentTime
       THEN MEMBER
       ELSE EXPIRED

isCeloWalletMember == membershipState = MEMBER

\* ------------------------------------------------------ membership scanner
\* relevantAccounts of scanForMemberships, in account order
relevantAccounts(raw, accountToScan) ==
  SeqOfSet({u \in accountToScan :
              /\ u \in DOMAIN raw
              /\ raw[u].networkId = DEFAULT_NETWORK
              /\ raw[u].wallet # VIEW_ONLY})

\* networks.find(({ id }) => DEFAULT_NETWORK === id) finds the network
networkConfigured == TRUE

\* scanForMemberships up to the call of getUnlockTimestamps: the promises in
\* flight afterwards.  closure is the memberships value the function closed over.
scanForMemberships(inFlight, raw, accountToScan, closure) ==
  LET relevant == relevantAccounts(raw, accountToScan)
  IN IF ~networkConfigured \/ Len(relevant) = 0
     THEN inFlight
     ELSE inFlight \cup
          {[addresses |-> [i \in 1..Len(relevant) |-> raw[relevant[i]].address],
            memberships |-> closure]}

\* What getUnlockTimestamps can resolve to for these addresses.
Expiries(addresses) == [Range(addresses) -> [Range(Contracts) -> 0..MaxExpiry]]

\* the filter / map over the contracts of one address (lines 223-228)
RECURSIVE contractMemberships(_, _)
contractMemberships(contracts, byContract) ==
  IF contracts = <<>> THEN <<>>
  ELSE (IF byContract[Head(contracts)] > 0
        THEN <<[type |-> MEMBERSHIP_CONTRACTS(Head(contracts)),
                expiry |-> byContract[Head(contracts)]]>>
        ELSE <<>>)
       \o contractMemberships(Tail(contracts), byContract)

\* newMemberships (lines 220-230)
RECURSIVE newMembershipsOf(_, _)
newMembershipsOf(addresses, expiries) ==
  IF addresses = <<>> THEN <<>>
  ELSE LET m == [address |-> Head(addresses),
                 memberships |-> contractMemberships(Contracts, expiries[Head(addresses)])]
       IN (IF Len(m.memberships) > 0 THEN <<m>> ELSE <<>>)
          \o newMembershipsOf(Tail(addresses), expiries)

\* lodash uniqBy(list, 'address'): the first entry of every address is kept
RECURSIVE uniqByAddress(_, _)
uniqByAddress(list, seen) ==
  IF list = <<>> THEN <<>>
  ELSE IF Head(list).address \in seen
       THEN uniqByAddress(Tail(list), seen)
       ELSE <<Head(list)>> \o uniqByAddress(Tail(list), seen \cup {Head(list).address})

\* lodash unionBy(a, b, property('address'))
unionBy(a, b) == uniqByAddress(a \o b, {})

\* A promise chain's value: a fulfilled value, fulfilled with undefined, or rejected.
Fulfilled(v) == [kind |-> "value", expiries |-> v]
FulfilledUndefined == [kind |-> "undefined", expiries |-> <<>>]
Rejected == [kind |-> "rejected", expiries |-> <<>>]

\* .catch((_) => { setMemberships(undefined); }): the memberships state after it
catchSetMembershipsKeep(settled, mem) == mem
catchSetMemberships(settled, mem) ==
  IF settled.kind = "rejected" THEN Undefined ELSE mem

\* .catch(...): the value the chain carries on with
catchValue(settled) ==
  IF settled.kind = "rejected" THEN FulfilledUndefined ELSE settled

\* .then(nestedToBigNumberJS): maps over Object.keys of its argument, which
\* throws a TypeError for undefined
nestedToBigNumberJS(chain) ==
  IF chain.kind = "value" THEN chain ELSE Rejected

\* .then((expiries) => { ... setMemberships(unionBy(...)) }): the memberships
\* state after it; closure is the memberships the scan's function closed over.
\* Object.keys(undefined) throws before setMemberships is reached.
thenSetMemberships(chain, addresses, closure, mem) ==
  IF chain.kind = "value"
  THEN Defined(unionBy(newMembershipsOf(addresses, chain.expiries),
                       IF closure.defined THEN closure.list ELSE <<>>))
  ELSE mem

\* memberships after the whole chain of one settled getUnlockTimestamps promise
membershipsAfterScan(scan, settled, mem) ==
  thenSetMemberships(nestedToBigNumberJS(catchValue(settled)), scan.addresses,
                     scan.memberships, catchSetMemberships(settled, mem))

\* ------------------------------------------------- AccountContext setters
\* addNewTransactionToAccount(account, tx): tx replaces the account's
\* transaction of the same hash, or is added; senderAccount is {} or {uuid}
addNewTransactionToAccount(raw, senderAccount, tx) ==
  [u \in DOMAIN raw |->
     IF u \in senderAccount
     THEN [raw[u] EXCEPT !.transactions = {t \in @ : t.hash # tx.hash} \cup {tx}]
     ELSE raw[u]]

\* updateAccountsBalances(accountsWithBalances)
updateAccountsBalances(raw, accountsWithBalances) ==
  [u \in DOMAIN raw |->
     IF u \in DOMAIN accountsWithBalances
     THEN [raw[u] EXCEPT !.balance = accountsWithBalances[u]]
     ELSE raw[u]]

\* deleteAccount(account)
deleteAccount(raw, u) == [v \in DOMAIN raw \ {u} |-> raw[v]]

\* createAccountWithID(account, uuid): the account is stored under uuid, with
\* uuid as its uuid field and the fields it was given
createAccountWithID(raw, account, uuid) ==
  [v \in DOMAIN raw \cup {uuid} |->
     IF v = uuid THEN ("uuid" :> uuid) @@ account ELSE raw[v]]

\* ----------------------------------------------- delete and restore (361-378)
\* accountRestore[accountId] (line 370): {} is undefined
accountRestoreOfAny(restore, accountId) == UNION {restore[u] : u \in DOMAIN restore}
accountRestoreOf(restore, accountId) == restore[accountId]

\* isEmpty(account) (line 371)
isEmpty(slot) == slot = {}

\* const { uuid, ...restAccount } = account (line 375)
restAccount(account) == [f \in DOMAIN account \ {"uuid"} |-> account[f]]

\* setAccountRestore(prevState => ({ ...prevState, [uuid]: undefined })) (line 377)
clearAccountRestoreKeep(restore, uuid) == restore
clearAccountRestore(restore, uuid) == [restore EXCEPT ![uuid] = {}]

\* ------------------------------------------------ effects of StoreProvider
\* the balances of the accounts a balance request was started for
balancesOf(raw, dash) == [u \in currentAccountsOf(raw, dash) |-> raw[u].balance]

\* An id for a new instance of the status effect: ids identify the closures
\* (isMounted, txStatusLookupInterval) of one run of the effect.
UsedIds ==
  isMounted \cup {i.id : i \in intervals} \cup {r.effect : r \in txRequests} \cup {txEffect}
NewEffectId == CHOOSE n \in 1..(Cardinality(UsedIds) + 1) :
                 n \notin UsedIds /\ \A m \in 1..(n - 1) : m \in UsedIds

\* the cleanup of the status effect (lines 307-310)
cleanupIsMounted(id, flags) == flags \ {id}
cleanupIntervalsKeep(id, timers) == timers
cleanupIntervals(id, timers) == {i \in timers : i.id # id}

\* the body of the status effect (lines 261-266): the timer it creates
statusEffectInterval(id, pending, mem) ==
  IF pending = {} THEN {}
  ELSE {[id |-> id, pendingTransactions |-> pending, memberships |-> mem]}

\* useInterval's cleanup of the balance poller: the function each run of the
\* callback returned is called (lines 191-193)
balanceCleanup(requests) == {[r EXCEPT !.isMounted = FALSE] : r \in requests}

\* the callback of the balance poller up to its request (lines 183-184)
balanceRequest(raw, dash) == [isMounted |-> TRUE, currentAccounts |-> balancesOf(raw, dash)]

\* The render after currentAccounts changed to those of raw2 and dash2, with
\* memberships mem2, and its effects: setPendingTransactions (lines 250-252),
\* the status effect's cleanup and next run (lines 260-311), and the balance
\* poller's cleanup and immediate run (lines 177-198).
Effects(raw2, dash2, mem2) ==
  LET pending2 == getPendingTransactionsFromAccounts(raw2, dash2)
      id == NewEffectId
  IN /\ pendingTransactions' = pending2
     /\ isMounted' = cleanupIsMounted(txEffect, isMounted)
                       \cup {i.id : i \in statusEffectInterval(id, pending2, mem2)}
     /\ intervals' = cleanupIntervals(txEffect, intervals)
                       \cup statusEffectInterval(id, pending2, mem2)
     /\ txEffect' = IF pending2 = {} THEN 0 ELSE id
     /\ balRequests' = balanceCleanup(balRequests) \cup {balanceRequest(raw2, dash2)}

NoEffects == UNCHANGED <<pendingTransactions, isMounted, intervals, txEffect, balRequests>>

Op(name) == [op |-> name, new |-> <<>>, flag |-> FALSE]

\* ------------------------------------------------------------------- Init
\* The state after the provider has mounted and its effects have run:
\* useEffectOnce has started the first membership scan, the pending
\* transactions are collected, and the pollers run.
InitialTransactions ==
  {[u \in Uuids |-> IF u = 1 THEN {PendingTx("h1", 1, PURCHASE_MEMBERSHIP, DEFAULT_NETWORK)}
                    ELSE IF u = 2 THEN t2
                    ELSE {}] :
     t2 \in {{PendingTx("h2", 2, NoTxType, DEFAULT_NETWORK)},
             {PendingTx("h2", 2, DEFIZAP, DEFAULT_NETWORK)},
             {PendingTx("h2", 2, NoTxType, NoValue)}}}

StoreInit(transactions) ==
  /\ \E txs \in transactions :
       rawAccounts = [u \in Uuids |-> [InitialAccount(u) EXCEPT !.transactions = txs[u]]]
  /\ dashboardAccounts = Uuids
  /\ accountRestore = [u \in Uuids |-> {}]
  /\ memberships = Defined(<<>>)
  /\ scans = scanForMemberships({}, rawAccounts, currentAccounts, Defined(<<>>))
  /\ now = 0
  /\ providerMounted = TRUE
  /\ pendingTransactions = getPendingTransactionsFromAccounts(rawAccounts, dashboardAccounts)
  /\ txEffect = 1
  /\ isMounted = {1}
  /\ intervals = statusEffectInterval(1, pendingTransactions, Defined(<<>>))
  /\ txRequests = {}
  /\ balRequests = {balanceRequest(rawAccounts, dashboardAccounts)}
  /\ tokenScans = {}
  /\ last = Op("mount")

\* ---------------------------------------------------------------- actions
\* Time passes.
Tick ==
  /\ UNCHANGED <<wb, api>>
  /\ now < 500 * MaxTicks
  /\ now' = now + 500
  /\ UNCHANGED <<rawAccounts, dashboardAccounts, accountRestore, memberships, scans,
                 providerMounted, pendingTransactions, txEffect, isMounted, intervals,
                 txRequests, balRequests, tokenScans, last>>

\* A consumer of the context calls state.scanForMemberships(accounts); the
\* function is the one of the latest render.
ScanForMemberships ==
  /\ UNCHANGED <<wb, api>>
  /\ providerMounted
  /\ \E accountToScan \in {currentAccounts} \cup {{u} : u \in DOMAIN rawAccounts} :
       scans' = scanForMemberships(scans, rawAccounts, accountToScan, memberships)
  /\ Cardinality(scans') <= MaxScans
  /\ last' = Op("scanForMemberships")
  /\ UNCHANGED <<rawAccounts, dashboardAccounts, accountRestore, memberships, now,
                 providerMounted, tokenScans, txRequests>>
  /\ NoEffects

\* getUnlockTimestamps resolves and the chain's reactions run.
ScanSuccess ==
  /\ UNCHANGED <<wb, api>>
  /\ \E scan \in scans : \E expiries \in Expiries(scan.addresses) :
       /\ memberships' = membershipsAfterScan(scan, Fulfilled(expiries), memberships)
       /\ scans' = scans \ {scan}
       /\ last' = [op |-> "scanSuccess", flag |-> FALSE,
                   new |-> newMembershipsOf(scan.addresses, expiries)]
  /\ UNCHANGED <<rawAccounts, dashboardAccounts, accountRestore, now, providerMounted,
                 tokenScans, txRequests>>
  /\ NoEffects

\* getUnlockTimestamps rejects and the chain's reactions run.
\* flag: memberships was defined before.
ScanFail ==
  /\ UNCHANGED <<wb, api>>
  /\ \E scan \in scans :
       /\ memberships' = membershipsAfterScan(scan, Rejected, memberships)
       /\ scans' = scans \ {scan}
  /\ last' = [op |-> "scanFail", flag |-> memberships.defined, new |-> <<>>]
  /\ UNCHANGED <<rawAccounts, dashboardAccounts, accountRestore, now, providerMounted,
                 tokenScans, txRequests>>
  /\ NoEffects

\* state.deleteAccountFromCache(account) (lines 361-368); new: the account's uuid
deleteAccountFromCache(account) ==
  /\ UNCHANGED <<wb, api>>
  /\ providerMounted
  /\ account \in DOMAIN rawAccounts
  /\ accountRestore' = [accountRestore EXCEPT ![account] = {rawAccounts[account]}]
  /\ rawAccounts' = deleteAccount(rawAccounts, account)
  /\ dashboardAccounts' = {d \in dashboardAccounts : d # account}
  /\ memberships' =
       IF memberships.defined
       THEN Defined(SelectSeq(memberships.list,
                              LAMBDA s : s.address # rawAccounts[account].address))
       ELSE Undefined
  /\ last' = [op |-> "deleteAccountFromCache", flag |-> FALSE, new |-> <<account>>]
  /\ Effects(rawAccounts', dashboardAccounts', memberships')
  /\ UNCHANGED <<scans, now, providerMounted, tokenScans, txRequests>>

\* state.restoreDeletedAccount(accountId) (lines 369-378); flag: it threw,
\* new: the accountId of the call
restoreDeletedAccount(accountId) ==
  /\ UNCHANGED <<wb, api>>
  /\ providerMounted
  /\ IF isEmpty(accountRestoreOf(accountRestore, accountId))
     THEN /\ last' = [op |-> "restoreDeletedAccount", flag |-> TRUE, new |-> <<accountId>>]
          /\ UNCHANGED <<rawAccounts, accountRestore>>
          /\ NoEffects
     ELSE LET account == CHOOSE a \in accountRestoreOf(accountRestore, accountId) : TRUE
          IN /\ rawAccounts' = createAccountWithID(rawAccounts, restAccount(account),
                                                   account.uuid)
             /\ accountRestore' = clearAccountRestore(accountRestore, account.uuid)
             /\ last' = [op |-> "restoreDeletedAccount", flag |-> FALSE,
                         new |-> <<accountId>>]
             /\ Effects(rawAccounts', dashboardAccounts, memberships)
  /\ UNCHANGED <<dashboardAccounts, memberships, scans, now, providerMounted,
                 tokenScans, txRequests>>

\* ------------------------------------------------- transaction status poller
\* One run of the setInterval callback of a status effect (lines 265-272):
\* a getTransactionByHash lookup for every pending transaction with a network.
statusLookups(interval) ==
  {[effect |-> interval.id, tx |-> p, phase |-> "byHash",
    memberships |-> interval.memberships] :
     p \in {q \in interval.pendingTransactions : q.network # NoValue}}

StatusTick ==
  /\ UNCHANGED <<wb, api>>
  /\ \E interval \in intervals :
       txRequests' = txRequests \cup statusLookups(interval)
  /\ Cardinality(txRequests') <= MaxRequests
  /\ last' = Op("statusTick")
  /\ UNCHANGED <<rawAccounts, dashboardAccounts, accountRestore, memberships, scans, now,
                 providerMounted, tokenScans>>
  /\ NoEffects

\* getTransactionByHash resolves (lines 272-285): without a receipt, with one
\* that fromTxReceiptObj cannot convert, or with one whose status and block
\* timestamp are then looked up.
TransactionByHashDone ==
  /\ UNCHANGED <<wb, api>>
  /\ \E r \in txRequests : \E found \in {"none", "unconvertible", "receipt"} :
       /\ r.phase = "byHash"
       /\ txRequests' = (txRequests \ {r}) \cup
            (IF found = "receipt" THEN {[r EXCEPT !.phase = "status"]} ELSE {})
       /\ last' = [op |-> "transactionByHash", flag |-> found = "receipt", new |-> <<>>]
  /\ UNCHANGED <<rawAccounts, dashboardAccounts, accountRestore, memberships, scans, now,
                 providerMounted, tokenScans>>
  /\ NoEffects

\* The guard of line 287; a lookup's result is {} (undefined) or {value}.
statusGuardNoMounted(effect, txStatus, txTimestamp) ==
  txStatus # {} /\ txTimestamp # {}
statusGuard(effect, txStatus, txTimestamp) ==
  effect \in isMounted /\ txStatus # {} /\ txTimestamp # {}

\* the receipt handed to addNewTransactionToAccount (lines 292-297)
confirmedTxKeepType(tx, txStatus, txTimestamp) ==
  [tx EXCEPT !.timestamp = txTimestamp, !.stage = txStatus]
confirmedTx(tx, txStatus, txTimestamp) ==
  [tx EXCEPT !.txType = IF tx.txType = NoTxType THEN STANDARD ELSE tx.txType,
             !.timestamp = txTimestamp,
             !.stage = txStatus]

\* Promise.all([getTxStatus, getTimestampFromBlockNum]) resolves (lines 285-303).
\* flag: addNewTransactionToAccount was called; new: the two lookups' results.
TxStatusDone ==
  \E r \in txRequests :
  \E txStatus \in {{}, {SUCCESS}, {FAILED}} :
  \E txTimestamp \in {{}} \cup {{t} : t \in 1..MaxTimestamp} :
    /\ r.phase = "status"
    /\ txRequests' = txRequests \ {r}
    /\ IF statusGuard(r.effect, txStatus, txTimestamp)
       THEN LET senderAccount ==
                  getAccountByAddressAndNetworkName(rawAccounts, r.tx.from, r.tx.network)
                tx == confirmedTx(r.tx, CHOOSE x \in txStatus : TRUE,
                                  CHOOSE t \in txTimestamp : TRUE)
            IN /\ rawAccounts' = addNewTransactionToAccount(rawAccounts, senderAccount, tx)
               /\ tokenScans' = IF r.tx.txType = DEFIZAP
                                THEN tokenScans \cup senderAccount ELSE tokenScans
               /\ scans' = IF r.tx.txType = PURCHASE_MEMBERSHIP
                           THEN scanForMemberships(scans, rawAccounts, senderAccount,
                                                   r.memberships)
                           ELSE scans
               /\ Cardinality(scans') <= MaxScans
               /\ last' = [op |-> "txStatus", flag |-> TRUE, new |-> <<txStatus, txTimestamp>>]
               /\ Effects(rawAccounts', dashboardAccounts, memberships)
       ELSE /\ last' = [op |-> "txStatus", flag |-> FALSE, new |-> <<txStatus, txTimestamp>>]
            /\ UNCHANGED <<rawAccounts, tokenScans, scans>>
            /\ NoEffects
    /\ UNCHANGED <<dashboardAccounts, accountRestore, memberships, now, providerMounted,
                   wb, api>>

\* ------------------------------------------------------------ balance poller
\* The 60 s timer of useInterval runs the callback (lines 178-194).
BalanceTick ==
  /\ UNCHANGED <<wb, api>>
  /\ providerMounted
  /\ balRequests' = balRequests \cup {balanceRequest(rawAccounts, dashboardAccounts)}
  /\ Cardinality(balRequests') <= MaxBalanceRequests
  /\ last' = Op("balanceTick")
  /\ UNCHANGED <<rawAccounts, dashboardAccounts, accountRestore, memberships, scans, now,
                 providerMounted, pendingTransactions, txEffect, isMounted, intervals,
                 txRequests, tokenScans>>

\* the guard of line 186
balanceGuard(request, accountsWithBalances) ==
  request.isMounted /\ accountsWithBalances # request.currentAccounts

\* getAccountsAssetsBalances resolves (lines 184-189).
\* flag: updateAccountsBalances was called.
BalancesDone ==
  \E r \in balRequests : \E b \in 0..MaxBalance :
    LET accountsWithBalances == [u \in DOMAIN r.currentAccounts |-> b]
    IN /\ IF balanceGuard(r, accountsWithBalances)
          THEN /\ rawAccounts' = updateAccountsBalances(rawAccounts, accountsWithBalances)
               /\ pendingTransactions' =
                    getPendingTransactionsFromAccounts(rawAccounts', dashboardAccounts)
               /\ isMounted' = cleanupIsMounted(txEffect, isMounted)
                     \cup {i.id : i \in statusEffectInterval(NewEffectId, pendingTransactions',
                                                             memberships)}
               /\ intervals' = cleanupIntervals(txEffect, intervals)
                     \cup statusEffectInterval(NewEffectId, pendingTransactions', memberships)
               /\ txEffect' = IF pendingTransactions' = {} THEN 0 ELSE NewEffectId
               /\ balRequests' = balanceCleanup(balRequests \ {r})
                     \cup {balanceRequest(rawAccounts', dashboardAccounts)}
               /\ last' = [op |-> "balances", flag |-> TRUE, new |-> <<>>]
          ELSE /\ balRequests' = balRequests \ {r}
               /\ last' = [op |-> "balances", flag |-> FALSE, new |-> <<>>]
               /\ UNCHANGED <<rawAccounts, pendingTransactions, txEffect, isMounted,
                              intervals>>
       /\ UNCHANGED <<dashboardAccounts, accountRestore, memberships, scans, now,
                      providerMounted, txRequests, tokenScans, wb, api>>

\* The provider unmounts: React runs the cleanups of its effects.  React drops
\* the state updates of an unmounted component, so the scans in flight can no
\* longer be observed and are dropped here.
Unmount ==
  /\ UNCHANGED <<wb, api>>
  /\ providerMounted
  /\ providerMounted' = FALSE
  /\ isMounted' = cleanupIsMounted(txEffect, isMounted)
  /\ intervals' = cleanupIntervals(txEffect, intervals)
  /\ txEffect' = 0
  /\ balRequests' = balanceCleanup(balRequests)
  /\ scans' = {}
  /\ last' = Op("unmount")
  /\ UNCHANGED <<rawAccounts, dashboardAccounts, accountRestore, memberships, now,
                 pendingTransactions, txRequests, tokenScans>>

\* The transactions the scanner's specifications start from.
ScannerTransactions ==
  {txs \in InitialTransactions : \A t \in txs[2] : t.txType = NoTxType /\ t.network # NoValue}

\* ------------------------------------------------ asset totals, breakdown
\* The assets and the accounts of a dashboard render.  An account's assets
\* are a list of [uuid, balance]; holdings[a][x] = 0: account a has no asset x.
AssetUuids == <<"A", "B", "C">>
BreakdownAccounts == {1, 2}

RECURSIVE assetsOfHoldings(_, _)
assetsOfHoldings(uuids, held) ==
  IF uuids = <<>> THEN <<>>
  ELSE (IF held[Head(uuids)] > 0
        THEN <<[uuid |-> Head(uuids), balance |-> held[Head(uuids)]]>>
        ELSE <<>>)
       \o assetsOfHoldings(Tail(uuids), held)

\* state.assets(selectedAccounts): flatMap over the accounts' assets
RECURSIVE flatMapAssets(_, _)
flatMapAssets(accountList, selectedAccounts) ==
  IF selectedAccounts = <<>> THEN <<>>
  ELSE accountList[Head(selectedAccounts)].assets
       \o flatMapAssets(accountList, Tail(selectedAccounts))

assetsAllAccounts(accountList, selectedAccounts) ==
  flatMapAssets(accountList, SeqOfSet(DOMAIN accountList))
assets(accountList, selectedAccounts) ==
  flatMapAssets(accountList, selectedAccounts)

\* getTotalByAsset(assets): one asset per uuid, in the order of the first of
\* its uuid, its balance the sum of the balances of that uuid
RECURSIVE getTotalByAsset(_, _)
getTotalByAsset(assetList, dict) ==
  IF assetList = <<>> THEN dict
  ELSE LET asset == Head(assetList)
           at == {i \in 1..Len(dict) : dict[i].uuid = asset.uuid}
       IN getTotalByAsset(Tail(assetList),
            IF at = {} THEN Append(dict, asset)
            ELSE [i \in 1..Len(dict) |->
                    IF i \in at
                    THEN [dict[i] EXCEPT !.balance = @ + asset.balance]
                    ELSE dict[i]])

\* state.totals(selectedAccounts)
totals(accountList, selectedAccounts) ==
  getTotalByAsset(assets(accountList, selectedAccounts), <<>>)

\* convertToFiatFromAsset(asset, rate)
convertToFiatFromAsset(asset, rate) == asset.balance * rate

\* state.totalFiat(selectedAccounts)(getAssetRate): the reduce over the totals
RECURSIVE reduceFiat(_, _, _)
reduceFiat(assetList, getAssetRate, sum) ==
  IF assetList = <<>> THEN sum
  ELSE reduceFiat(Tail(assetList), getAssetRate,
                  sum + convertToFiatFromAsset(Head(assetList),
                                               getAssetRate[Head(assetList).uuid]))

totalFiat(accountList, selectedAccounts, getAssetRate) ==
  reduceFiat(totals(accountList, selectedAccounts), getAssetRate, 0)

\* isExcludedAsset(settings.excludedAssets): the predicate of the filter
isExcludedAsset(excludedAssets, asset) == asset.uuid \notin excludedAssets

\* the Balance of one asset total (lines 183-211 of WalletBreakdown)
RECURSIVE balanceAccounts(_, _, _, _)
balanceAccounts(accountList, currentList, asset, exchangeRate) ==
  IF currentList = <<>> THEN <<>>
  ELSE LET currAccount == accountList[Head(currentList)]
           matching == SelectSeq(currAccount.assets, LAMBDA a : a.uuid = asset.uuid)
       IN [i \in 1..Len(matching) |->
             [address |-> currAccount.address,
              amount |-> matching[i].balance,
              fiatValue |-> convertToFiatFromAsset(matching[i], exchangeRate)]]
          \o balanceAccounts(accountList, Tail(currentList), asset, exchangeRate)

balanceOfAsset(accountList, currentList, asset, getAssetRate) ==
  [uuid |-> asset.uuid,
   amount |-> asset.balance,
   fiatValue |-> convertToFiatFromAsset(asset, getAssetRate[asset.uuid]),
   exchangeRate |-> getAssetRate[asset.uuid],
   accounts |-> balanceAccounts(accountList, currentList, asset, getAssetRate[asset.uuid])]

\* the comparator of .sort((a, b) => b.fiatValue - a.fiatValue)
compareAscending(a, b) == a.fiatValue - b.fiatValue
compareBalances(a, b) == b.fiatValue - a.fiatValue

\* Array.prototype.sort with that comparator; the sort is stable
RECURSIVE insertSorted(_, _)
insertSorted(sorted, x) ==
  IF sorted = <<>> THEN <<x>>
  ELSE IF compareBalances(Head(sorted), x) <= 0
       THEN <<Head(sorted)>> \o insertSorted(Tail(sorted), x)
       ELSE <<x>> \o sorted

RECURSIVE sortBalances(_, _)
sortBalances(list, sorted) ==
  IF list = <<>> THEN sorted
  ELSE sortBalances(Tail(list), insertSorted(sorted, Head(list)))

\* balances of WalletBreakdown (lines 181-213)
walletBalances(accountList, currentList, excludedAssets, getAssetRate) ==
  LET kept == SelectSeq(totals(accountList, currentList),
                        LAMBDA asset : isExcludedAsset(excludedAssets, asset))
  IN sortBalances([i \in 1..Len(kept) |->
                     balanceOfAsset(accountList, currentList, kept[i], getAssetRate)],
                  <<>>)

\* totalFiatValue of WalletBreakdown (lines 215-217)
RECURSIVE reduceFiatValue(_, _)
reduceFiatValue(balances, sum) ==
  IF balances = <<>> THEN sum
  ELSE reduceFiatValue(Tail(balances), sum + Head(balances).fiatValue)

\* The inputs of a render: the accounts, the dashboard selection, the
\* excluded assets and the rates.
BreakdownInputs ==
  [holdings : [BreakdownAccounts -> [Range(AssetUuids) -> 0..MaxHolding]],
   currentAccounts : SUBSET BreakdownAccounts,
   excludedAssets : SUBSET Range(AssetUuids),
   getAssetRate : [Range(AssetUuids) -> 1..MaxRate]]

accountsOf(holdings) ==
  [a \in BreakdownAccounts |->
     [uuid |-> a, address |-> AddressOf(a), assets |-> assetsOfHoldings(AssetUuids, holdings[a])]]

\* One render of WalletBreakdown, and state.totalFiat for the selection and
\* without a selection (selectedAccounts = state.accounts).
Render ==
  /\ ~wb.rendered
  /\ LET accountList == accountsOf(wb.input.holdings)
         currentList == SeqOfSet(wb.input.currentAccounts)
         balances == walletBalances(accountList, currentList, wb.input.excludedAssets,
                                    wb.input.getAssetRate)
     IN wb' = [wb EXCEPT
                 !.rendered = TRUE,
                 !.totals = totals(accountList, currentList),
                 !.balances = balances,
                 !.totalFiatValue = reduceFiatValue(balances, 0),
                 !.totalFiat = totalFiat(accountList, currentList, wb.input.getAssetRate),
                 !.totalFiatDefault =
                   totalFiat(accountList, SeqOfSet(DOMAIN accountList),
                             wb.input.getAssetRate)]
  /\ UNCHANGED <<storeVars, api>>

BreakdownInit ==
  /\ StoreInit(ScannerTransactions)
  /\ api = 0
  /\ \E input \in BreakdownInputs :
       wb = [input |-> input, rendered |-> FALSE, totals |-> <<>>, balances |-> <<>>,
             totalFiatValue |-> 0, totalFiat |-> 0, totalFiatDefault |-> 0]
SpecBreakdown == BreakdownInit /\ [][Render]_vars

\* ------------------------------------------------ CeloWalletApiService
\* What the server can answer with for assets.json.
Manifests == UNION {[S -> {"asset"}] : S \in SUBSET {"u1", "u2"}}
EmptyMapping == [u \in {} |-> "asset"]

\* getAssets (lines 25-33): the promise after the request succeeded
getAssetsTry(data) == [state |-> "fulfilled", value |-> data]
\* ... and after it failed
getAssetsCatchRethrow == [state |-> "rejected", value |-> EmptyMapping]
getAssetsCatch == [state |-> "fulfilled", value |-> EmptyMapping]

\* getAssets() is called: one request is sent
GetAssets ==
  /\ Len(api) < MaxCalls
  /\ api' = Append(api, [http |-> "pending", data |-> EmptyMapping, requests |-> 1,
                         promise |-> [state |-> "pending", value |-> EmptyMapping]])
  /\ UNCHANGED <<storeVars, wb>>

\* the request of a call succeeds with data
GetAssetsSucceeds ==
  /\ \E c \in 1..Len(api) : \E data \in Manifests :
       /\ api[c].http = "pending"
       /\ api' = [api EXCEPT ![c].http = "ok", ![c].data = data,
                             ![c].promise = getAssetsTry(data)]
  /\ UNCHANGED <<storeVars, wb>>

\* the request of a call fails
GetAssetsFails ==
  /\ \E c \in 1..Len(api) :
       /\ api[c].http = "pending"
       /\ api' = [api EXCEPT ![c].http = "error", ![c].promise = getAssetsCatch]
  /\ UNCHANGED <<storeVars, wb>>

ApiInit == StoreInit(ScannerTransactions) /\ wb = 0 /\ api = <<>>
ApiNext == GetAssets \/ GetAssetsSucceeds \/ GetAssetsFails
SpecApi == ApiInit /\ [][ApiNext]_vars

\* The membership scanner with account delete and restore.
Init == StoreInit(ScannerTransactions) /\ wb = 0 /\ api = 0
Next ==
  \/ ScanForMemberships
  \/ ScanSuccess
  \/ ScanFail
  \/ \E account \in Owned : deleteAccountFromCache(account)
  \/ \E accountId \in Owned : restoreDeletedAccount(accountId)
Spec == Init /\ [][Next]_vars

\* The membership scanner under a running clock.
ClockNext ==
  \/ Tick
  \/ ScanForMemberships
  \/ ScanSuccess
  \/ ScanFail
SpecClock == Init /\ [][ClockNext]_vars

\* The balance poller and the transaction status poller.
PollersInit == StoreInit(InitialTransactions) /\ wb = 0 /\ api = 0
PollersNext ==
  \/ StatusTick
  \/ TransactionByHashDone
  \/ TxStatusDone
  \/ BalanceTick
  \/ BalancesDone
  \/ \E account \in Owned : deleteAccountFromCache(account)
  \/ Unmount
SpecPollers == PollersInit /\ [][PollersNext]_vars

\* ------------------------------------------------------------------ claims
\* the entries of memberships, none when it is undefined
membershipEntries(mem) == IF mem.defined THEN Range(mem.list) ELSE {}

\* C1: membershipState is one of ERROR, NOTMEMBER, MEMBER, EXPIRED: ERROR when
\* memberships is undefined, NOTMEMBER when it has no entry, otherwise MEMBER
\* when some expiry of some entry is strictly greater than the current time
\* in seconds and EXPIRED when none is; isCeloWalletMember is true exactly
\* when membershipState is MEMBER.
C1_MembershipState ==
  LET unexpired == \E m \in membershipEntries(memberships) :
                     \E i \in 1..Len(m.memberships) : m.memberships[i].expiry > currentTime
  IN /\ membershipState \in {ERROR, NOTMEMBER, MEMBER, EXPIRED}
     /\ (membershipState = ERROR) <=> ~memberships.defined
     /\ (membershipState = NOTMEMBER) <=> (memberships.defined /\ Len(memberships.list) = 0)
     /\ (membershipState = MEMBER) <=>
          (memberships.defined /\ Len(memberships.list) > 0 /\ unexpired)
     /\ (membershipState = EXPIRED) <=>
          (memberships.defined /\ Len(memberships.list) > 0 /\ ~unexpired)
     /\ isCeloWalletMember <=> (membershipState = MEMBER)

\* C1 witness: two entries, the latest expiry equal to the current time: EXPIRED
C1_Witness ==
  /\ memberships.defined
  /\ Len(memberships.list) = 2
  /\ \E m \in membershipEntries(memberships) : m.memberships[1].expiry = currentTime
  /\ \A m \in membershipEntries(memberships) : m.memberships[1].expiry <= currentTime
  /\ membershipState = EXPIRED

\* C2: after the chain of a scan whose getUnlockTimestamps failed has run,
\* memberships is undefined and membershipState is ERROR, and memberships
\* stays undefined until a scan succeeds.
C2_FailedScanIsError ==
  /\ [](last.op = "scanFail" => (~memberships.defined /\ membershipState = ERROR))
  /\ [][(~memberships.defined /\ memberships'.defined) => last'.op = "scanSuccess"]_vars

\* C2 witness: a failed scan has replaced a defined membership list
C2_Witness ==
  /\ last.op = "scanFail"
  /\ last.flag
  /\ ~memberships.defined

\* C9: a successful scan leaves in memberships the entry it produced for every
\* scanned address with an expiry greater than 0, as the only entry of that
\* address, and keeps every entry memberships held just before for an address
\* the scan did not cover, also when scans overlap.
C9_ScanKeepsOtherEntries ==
  [][\A scan \in scans \ scans' :
       last'.op = "scanSuccess" =>
         /\ memberships'.defined
         /\ \A i \in 1..Len(last'.new) :
              \A m \in membershipEntries(memberships') :
                m.address = last'.new[i].address => m = last'.new[i]
         /\ \A i \in 1..Len(last'.new) : last'.new[i] \in membershipEntries(memberships')
         /\ \A m \in membershipEntries(memberships) :
              m.address \notin Range(scan.addresses) => m \in membershipEntries(memberships')
    ]_vars

\* C10: once deleteAccountFromCache(account) has run, memberships holds no
\* entry of the account's address, the account's uuid is not among
\* settings.dashboardAccounts and accountRestore holds the account under its
\* uuid, also after a scan started before the delete has completed.
C10_DeletedStaysRemoved ==
  \A u \in Owned :
    accountRestore[u] # {} =>
      /\ \A account \in accountRestore[u] :
           /\ account.uuid = u
           /\ \A m \in membershipEntries(memberships) : m.address # account.address
      /\ u \notin dashboardAccounts

\* C3: a run of the status poller calls addNewTransactionToAccount for a
\* pending transaction only when the transaction has a network, its lookup
\* returned a receipt that could be converted, the status and the block
\* timestamp lookups both returned a value and the effect is still mounted;
\* the sender account then holds the receipt with the looked-up status as
\* stage, the looked-up block timestamp and the transaction's txType, or
\* STANDARD when it has none.  In every other case no account changes.
C3_StatusPollerUpdate ==
  [][/\ last'.op = "statusTick" =>
          /\ rawAccounts' = rawAccounts
          /\ \A r \in txRequests' \ txRequests : r.tx.network # NoValue /\ r.phase = "byHash"
     /\ \A r \in txRequests \ txRequests' :
          r.phase = "byHash" =>
            /\ rawAccounts' = rawAccounts
            /\ \A q \in txRequests' \ txRequests :
                 q.phase = "status" /\ last'.op = "transactionByHash" /\ last'.flag
     /\ \A r \in txRequests \ txRequests' :
          r.phase = "status" =>
            IF /\ r.tx.network # NoValue
               /\ last'.new[1] # {}
               /\ last'.new[2] # {}
               /\ r.effect = txEffect
            THEN \E sender \in DOMAIN rawAccounts :
                   /\ rawAccounts[sender].address = r.tx.from
                   /\ \A u \in DOMAIN rawAccounts \ {sender} : rawAccounts'[u] = rawAccounts[u]
                   /\ rawAccounts'[sender].balance = rawAccounts[sender].balance
                   /\ rawAccounts'[sender].transactions =
                        {t \in rawAccounts[sender].transactions : t.hash # r.tx.hash}
                        \cup {[hash |-> r.tx.hash, from |-> r.tx.from, network |-> r.tx.network,
                               stage |-> CHOOSE x \in last'.new[1] : TRUE,
                               timestamp |-> CHOOSE x \in last'.new[2] : TRUE,
                               txType |-> IF r.tx.txType = NoTxType THEN STANDARD
                                          ELSE r.tx.txType]}
            ELSE rawAccounts' = rawAccounts
    ]_vars

\* C3 witness: a confirmation was stored for a transaction without a txType
C3_Witness ==
  /\ last.op = "txStatus"
  /\ last.flag
  /\ \E u \in DOMAIN rawAccounts : \E t \in rawAccounts[u].transactions :
       t.stage = SUCCESS /\ t.txType = STANDARD /\ t.timestamp > 0

\* C4: a request of the balance poller or of the status poller that completes
\* after the provider was unmounted, or after the effect run that started it
\* was cleaned up, changes no account.
C4_CancelledRequestsChangeNothing ==
  [][/\ ~providerMounted => rawAccounts' = rawAccounts
     /\ \A r \in txRequests \ txRequests' : r.effect # txEffect => rawAccounts' = rawAccounts
     /\ \A r \in balRequests \ balRequests' : ~r.isMounted => rawAccounts' = rawAccounts
    ]_vars

\* C4 witness: both lookups of a status request returned a value after the
\* provider was unmounted, and nothing was stored
C4_Witness ==
  /\ ~providerMounted
  /\ last.op = "txStatus"
  /\ ~last.flag
  /\ last.new[1] # {}
  /\ last.new[2] # {}

\* C8: pendingTransactions is the pending transactions of currentAccounts;
\* at most one status polling interval is active, none when
\* pendingTransactions is empty, and an active one polls exactly
\* pendingTransactions.
C8_OneStatusInterval ==
  providerMounted =>
    /\ pendingTransactions = getPendingTransactionsFromAccounts(rawAccounts, dashboardAccounts)
    /\ Cardinality(intervals) <= 1
    /\ pendingTransactions = {} <=> intervals = {}
    /\ \A i \in intervals : i.pendingTransactions = pendingTransactions /\ i.id = txEffect

\* C8 witness: the interval was created anew for the one transaction left pending
C8_Witness ==
  /\ providerMounted
  /\ \E i \in intervals : i.id # 1 /\ Cardinality(i.pendingTransactions) = 1
  /\ \E u \in DOMAIN rawAccounts : \E t \in rawAccounts[u].transactions : t.stage # PENDING

\* the sum of the function f over the finite set S
RECURSIVE SumOver(_, _)
SumOver(S, f) ==
  IF S = {} THEN 0
  ELSE LET x == CHOOSE y \in S : TRUE IN f[x] + SumOver(S \ {x}, f)

\* the units of asset x that the accounts of S hold together
HeldBy(S, x) == SumOver(S, [a \in S |-> wb.input.holdings[a][x]])

\* C5: the balance list has exactly one entry for every asset total that is
\* not excluded and none for an excluded asset, is ordered by non-increasing
\* fiat value, and totalFiatValue is the sum of the fiat values of the
\* listed assets only.
C5_BreakdownBalances ==
  wb.rendered =>
    LET listed == {x \in Range(AssetUuids) :
                     /\ HeldBy(wb.input.currentAccounts, x) > 0
                     /\ x \notin wb.input.excludedAssets}
    IN /\ \A i \in 1..Len(wb.totals) :
            wb.totals[i].uuid \notin wb.input.excludedAssets =>
              Cardinality({j \in 1..Len(wb.balances) :
                             wb.balances[j].uuid = wb.totals[i].uuid}) = 1
       /\ \A j \in 1..Len(wb.balances) :
            /\ wb.balances[j].uuid \notin wb.input.excludedAssets
            /\ \E i \in 1..Len(wb.totals) : wb.totals[i].uuid = wb.balances[j].uuid
       /\ \A j \in 1..(Len(wb.balances) - 1) :
            wb.balances[j].fiatValue >= wb.balances[j + 1].fiatValue
       /\ wb.totalFiatValue =
            SumOver(listed, [x \in listed |-> HeldBy(wb.input.currentAccounts, x)
                                                 * wb.input.getAssetRate[x]])

\* C5 witness: an excluded asset is held, and the list has entries of
\* different fiat values
C5_Witness ==
  /\ wb.rendered
  /\ \E i \in 1..Len(wb.totals) : wb.totals[i].uuid \in wb.input.excludedAssets
  /\ Len(wb.balances) = 2
  /\ wb.balances[1].fiatValue > wb.balances[2].fiatValue
  /\ wb.totals[1].uuid = wb.balances[2].uuid

\* C6: totalFiat(selectedAccounts)(getAssetRate) is the sum, over the assets
\* the selected accounts hold, of the fiat value of the asset's balance summed
\* over the selected accounts at its rate; it is 0 for an empty selection;
\* without a selection all accounts of the store are selected.
C6_TotalFiat ==
  wb.rendered =>
    LET held(S) == {x \in Range(AssetUuids) : \E a \in S : wb.input.holdings[a][x] > 0}
        total(S) ==
          SumOver(held(S),
                  [x \in held(S) |->
                     convertToFiatFromAsset([uuid |-> x, balance |-> HeldBy(S, x)],
                                            wb.input.getAssetRate[x])])
    IN /\ wb.totalFiat = total(wb.input.currentAccounts)
       /\ wb.input.currentAccounts = {} => wb.totalFiat = 0
       /\ wb.totalFiatDefault = total(BreakdownAccounts)
       /\ \A i, j \in 1..Len(wb.totals) : wb.totals[i].uuid = wb.totals[j].uuid => i = j
       /\ \A i \in 1..Len(wb.totals) :
            wb.totals[i].balance = HeldBy(wb.input.currentAccounts, wb.totals[i].uuid)

\* C6 witness: one selected account of two, and an asset both accounts hold
C6_Witness ==
  /\ wb.rendered
  /\ wb.input.currentAccounts = {2}
  /\ \E x \in Range(AssetUuids) : \A a \in BreakdownAccounts : wb.input.holdings[a][x] > 0
  /\ wb.totalFiat > 0
  /\ wb.totalFiatDefault > wb.totalFiat

\* C7: getAssets never rejects: it resolves to an empty mapping when the
\* request failed and to the response data when it succeeded, and a call
\* sends one request only.
C7_GetAssetsNeverRejects ==
  \A c \in 1..Len(api) :
    /\ api[c].promise.state # "rejected"
    /\ api[c].http = "error" =>
         (api[c].promise.state = "fulfilled" /\ DOMAIN api[c].promise.value = {})
    /\ api[c].http = "ok" =>
         (api[c].promise.state = "fulfilled" /\ api[c].promise.value = api[c].data)
    /\ api[c].http = "pending" => api[c].promise.state = "pending"
    /\ api[c].requests = 1

\* C7 witness: one call failed and another answered with a manifest
C7_Witness ==
  /\ \E c \in 1..Len(api) : api[c].http = "error" /\ api[c].promise.state = "fulfilled"
  /\ \E c \in 1..Len(api) : api[c].http = "ok" /\ DOMAIN api[c].promise.value # {}


\* C11: a call restoreDeletedAccount(id) made while accountRestore holds no
\* account for id throws and changes no state: no account is created and
\* accountRestore, the dashboard accounts and memberships are unchanged.
\* accountRestore holds no account for the uuid of an account that exists,
\* which covers the accounts never deleted and the accounts already restored.
C11_RestoreWithoutAccountThrows ==
  /\ [](\A u \in DOMAIN rawAccounts : accountRestore[u] = {})
  /\ [][(last'.op = "restoreDeletedAccount" /\ accountRestore[last'.new[1]] = {}) =>
          /\ last'.flag
          /\ UNCHANGED <<rawAccounts, accountRestore, dashboardAccounts, memberships,
                         pendingTransactions>>
       ]_vars

\* C11 witness: the restore of an account that was deleted and restored
\* before has thrown
C11_Witness ==
  /\ last.op = "restoreDeletedAccount"
  /\ last.flag
  /\ last.new[1] \in DOMAIN rawAccounts
  /\ last.new[1] \notin dashboardAccounts
  /\ accountRestore[last.new[1]] = {}

\* C12: deleteAccountFromCache(a) stores a under a.uuid in accountRestore and
\* removes only a; a restoreDeletedAccount(a.uuid) that does not throw then
\* creates the stored account again under the same uuid with its fields
\* unchanged, leaves every other account alone and empties the slot of that
\* uuid, so the accounts are the ones before the delete; it adds neither the
\* uuid to settings.dashboardAccounts nor an entry to memberships, and after
\* a delete directly followed by the restore memberships has no entry of the
\* account's address.
C12_DeleteRestoreRoundTrip ==
  /\ [](\E txs \in ScannerTransactions :
          \A u \in DOMAIN rawAccounts :
            rawAccounts[u] = [InitialAccount(u) EXCEPT !.transactions = txs[u]])
  /\ [][/\ last'.op = "deleteAccountFromCache" =>
            /\ accountRestore'[last'.new[1]] = {rawAccounts[last'.new[1]]}
            /\ DOMAIN rawAccounts' = DOMAIN rawAccounts \ {last'.new[1]}
        /\ (last'.op = "restoreDeletedAccount" /\ ~last'.flag) =>
           LET id == last'.new[1]
           IN /\ DOMAIN rawAccounts' = DOMAIN rawAccounts \cup {id}
              /\ \A u \in DOMAIN rawAccounts : rawAccounts'[u] = rawAccounts[u]
              /\ accountRestore[id] = {rawAccounts'[id]}
              /\ rawAccounts'[id].uuid = id
              /\ accountRestore' = [accountRestore EXCEPT ![id] = {}]
              /\ dashboardAccounts' = dashboardAccounts
              /\ id \notin dashboardAccounts'
              /\ memberships' = memberships
              /\ \/ ~(last.op = "deleteAccountFromCache" /\ last.new = <<id>>)
                 \/ \A m \in membershipEntries(memberships') :
                      m.address # rawAccounts'[id].address
       ]_vars

\* C12 witness: an account is back after a delete and a restore, with every
\* account present, its restore slot empty and its dashboard entry gone
C12_Witness ==
  /\ last.op = "restoreDeletedAccount"
  /\ ~last.flag
  /\ DOMAIN rawAccounts = Uuids
  /\ accountRestore[last.new[1]] = {}
  /\ last.new[1] \notin dashboardAccounts
  /\ rawAccounts[last.new[1]].uuid = last.new[1]

====
